---------------------------- MODULE Spec2Model ----------------------------
(***************************************************************************)
(* The streaming city scene of astro-nightwalk: the chunk pool and its     *)
(* recycler, the render loop with its visibility pause, the FPS profiler   *)
(* and the quality controller, the debounced resize and the teardown.      *)
(*                                                                         *)
(* Sources: CityScene.ts (src/unnamed/part_003), performance.ts            *)
(* (src/unnamed/part_002), buildings.ts (src/unnamed/part_008),            *)
(* skyline.config.ts (src/unnamed/part_001).                               *)
(*                                                                         *)
(* Units: lengths are world units (all values the code produces are        *)
(* integers, MOVE_SPEED = 2.0); pixel ratios are in hundredths (0.25 is    *)
(* 25); times are milliseconds.  performance.now() is read only inside     *)
(* measureFPS, so the clock enters as the time that passed between two     *)
(* consecutive readings.                                                   *)
(***************************************************************************)
EXTENDS Integers, Sequences, FiniteSets, TLC

VARIABLES
    phase,              \* API history, the latest call: "loaded" (none yet),
                        \* "running" or "fallback" (initCityScene), "disposed"
    scene,              \* CityScene.ts:17  "undefined" | "live" | "disposed"
    renderer,           \* CityScene.ts:19  "undefined" | "live" | "disposed"
    animationId,        \* CityScene.ts:20  0 stands for undefined / 0
    isVisible,          \* CityScene.ts:21
    visibilityObserver, \* CityScene.ts:22  "null" | "connected"
    observing,          \* the IntersectionObservers that observe the container
    frameCounter,       \* CityScene.ts:23
    cityChunks,         \* CityScene.ts:31  sequence of slots, nearest first
    totalDistance,      \* CityScene.ts:32
    cameraZ,            \* camera.position.z
    chunkZ,             \* slot -> position.z of the chunk group built for it
    sceneChunks,        \* the chunk groups that were scene.add-ed
    chunkMeshes,        \* slot -> the meshes below the chunk group
    materials,          \* material -> its class and its texture slots
    disposeCount,       \* geometry, material or texture -> dispose() calls
    created,            \* history: every geometry, material and texture made
    chunksCreated,      \* history: createCityChunk calls
    disposeCalls,       \* history: disposeCityScene calls
    rafCalls,           \* history: requestAnimationFrame calls
    cameraAspect,       \* camera.aspect as <<width, height>>
    rendererSize,       \* the size given to renderer.setSize
    frameSteps,         \* history: what the latest run of animate did, in order
    sinceLast,          \* performance.ts:16 time of the latest reading - lastTime
    frameCount,         \* performance.ts:17
    currentFPS,         \* performance.ts:18
    pixelRatio,         \* renderer.getPixelRatio(), in hundredths
    rafPending,         \* handles of the frame callbacks the host still holds
    devicePixelRatio,   \* window.devicePixelRatio in hundredths, 0 = undefined
    isMobile,           \* const isMobile of the latest initCityScene
    resizeListeners,    \* the 'resize' listeners registered on window, in the
                        \* order of registration: the isMobile each one captured
    resizeTimers,       \* debounce: per listener, ms left on its pending setTimeout
    msSinceEvent,       \* history: ms since the latest resize event (100: none within 100 ms)
    eventsSinceRun,     \* history: resize events since handleResize last ran
    containerSize,      \* <<container.clientWidth, container.clientHeight>>
    containerBackground,\* container.style.background: "" or "gradient"
    webgl,              \* the browser: what isWebGLSupported will find
    threw,              \* history: an exception left an entry point
    fnCall,             \* buildings.ts: the arguments of a call under study
    fnResult,           \* buildings.ts: what that call has produced so far
    framesDrawn,        \* history: renderer.render calls
    recycleCount,       \* history: recycle events since initCityChunks
    drawnSince,         \* history: render calls since the last window boundary
    fpsReads,           \* history: measureFPS calls
    windowMs,           \* history: elapsed time of the last closed window
    windowFrames        \* history: render calls during the last closed window

progVars == <<scene, renderer, animationId, isVisible, visibilityObserver,
              observing, disposeCalls, frameCounter, cityChunks, totalDistance, cameraZ, chunkZ,
              sceneChunks, chunkMeshes, materials, disposeCount, created,
              chunksCreated, rafCalls, frameSteps, cameraAspect, rendererSize,
              sinceLast, frameCount, currentFPS, pixelRatio,
              rafPending, framesDrawn, recycleCount, drawnSince, fpsReads,
              windowMs, windowFrames, threw>>

resizeVars == <<resizeTimers, msSinceEvent, eventsSinceRun, containerSize>>

hostVars == <<phase, devicePixelRatio, isMobile, resizeListeners, resizeVars,
              containerBackground, webgl, fnCall, fnResult>>

vars == <<progVars, hostVars>>

\* debounce: the pending timeouts, as <<listener, position>>
TimerSlots(timers) ==
    UNION {{<<k, j>> : j \in 1 .. Len(timers[k])} : k \in 1 .. Len(timers)}

\* debounce: a timeout is pending
resizeTimer == TimerSlots(resizeTimers) # {}

---------------------------------------------------------------------------
(* Program constants *)

CHUNK_SIZE == 1000
MOVE_SPEED == 2
CHUNK_COUNT == 3
FPS_CHECK_INTERVAL == 60
TARGET_FPS == 60
FPS_GATE == 50
QUALITY_STEP == 25
MIN_PIXEL_RATIO == 100
WINDOW_MS == 1000
mobilePixelRatio == 150
desktopPixelRatio == 200
BEACON_HEIGHT == 150
spacing == 50                   \* skylineConfig.buildings.spacing, in tenths
ATTEMPTS_PER_BUILDING == 10     \* generateCityscape: maxAttempts = buildingCount * 10
FIN_COUNT == 4
BUILDING_RANGE_X == 500
ROAD_WIDTH == 40
RESOLUTION == 256
DEBOUNCE_MS == 100

WINDOW_COLORS_WARM ==
    <<"#ffeedd", "#ffccaa", "#ffddaa", "#ffaa88", "#ff8866", "#ffaa55", "#ffcc88">>
WINDOW_COLORS_COOL == <<"#ccddff", "#ddeeff", "#aaaaff", "#ffffff">>

(* Bounds of the model *)

MaxFrames == 122        \* frames executed in the loop specification
MaxRecycles == 4        \* recycle events in the travel specification
MaxBuildings == 1       \* buildings followed per chunk (the code builds 30 or 60)
MaxBurst == 3           \* resize events followed in one burst
MaxChecks == 5          \* quality checks followed in the quality specification
MaxPlaced == 2          \* buildingCount of generateCityscape (the config has 40 or 60)
MaxInits == 2           \* scenes built in the resize and restart specifications
MaxDisposes == 1        \* teardowns in the release specification
MaxCalls == 3           \* initCityScene and disposeCityScene calls in the lifecycle specification
MaxLife == 3            \* frames executed in the lifecycle specification

(* Inputs *)

DevicePixelRatios == {0, 75, 110, 300}
DefaultSize == <<800, 600>>
ContainerSizes == {<<800, 600>>, <<1024, 400>>, <<360, 640>>}
TickMs == {40, 60}
GapMs == {500, 1000, 2500}      \* time between two clock readings
SteadyGapMs == {1000}           \* 60 frames at 60 frames per second

Slots == 0 .. (CHUNK_COUNT - 1)

\* browsers: is window.WebGLRenderingContext there, and what the two
\* getContext calls give ("context", "null" or "throws")
WebGLEnvs ==
    { [ctor |-> TRUE,  first |-> "context", second |-> "null"],
      [ctor |-> TRUE,  first |-> "null",    second |-> "context"],
      [ctor |-> FALSE, first |-> "context", second |-> "context"],
      [ctor |-> TRUE,  first |-> "null",    second |-> "null"],
      [ctor |-> TRUE,  first |-> "throws",  second |-> "context"],
      [ctor |-> TRUE,  first |-> "null",    second |-> "throws"] }

\* the random draws of one building, as far as they decide its meshes
KindList ==
    << [style |-> "L", height |-> 400, subPct |-> 70, fins |-> FALSE,
        roof1 |-> 1, roof2 |-> 2],
       [style |-> "tapered", height |-> 120, subPct |-> 30, fins |-> FALSE,
        roof1 |-> 3, roof2 |-> 1],
       [style |-> "standard", height |-> 700, subPct |-> 30, fins |-> TRUE,
        roof1 |-> 1, roof2 |-> 1],
       [style |-> "standard", height |-> 150, subPct |-> 30, fins |-> FALSE,
        roof1 |-> 2, roof2 |-> 1] >>

\* the draws of a whole scene: slot -> the draws of its buildings
ContentFor(r) ==
    [i \in Slots |->
        [b \in 1 .. MaxBuildings |-> KindList[((i + b + r) % Len(KindList)) + 1]]]

ContentChoices == {ContentFor(r) : r \in 0 .. (Len(KindList) - 1)}
DefaultContent == {ContentFor(0)}

\* no call of buildings.ts is under study
NoCall == [fn |-> "none"]

\* Math.random() in thousandths, around the thresholds the code tests
StyleDraws == {399, 400, 699, 700}
ThemeDraws == {399, 400, 800}
FloorDraws == {399, 400}
LitDraws == {49, 50, 699, 700}
IndexDraws == {0, 500, 999}
OffThemeDraws == {49, 50}

\* createCityChunk: width = randomRange(40, 90); height = randomRange(100, 500)
\* or, for a landmark, randomRange(600, 800)
BuildingWidths == {40, 89}
BuildingHeights == {100, 499, 600, 799}

\* createWindowTexture takes any two numbers: facades far wider than high,
\* with height / width at 1/512 and below it
FlatWidths == {512, 600}
FlatHeights == {1}

\* the two createCityChunk placement loops: the spread, the half-width of
\* the band around x = 0 that is tested, and building widths at the ends of
\* randomRange(40, 90) and randomRange(20, 50)
ROAD_MARGIN == 10
BUILDING_RANGE_X_STRAIGHT == 300
PlacementLoops ==
    { [loop |-> "complex", range |-> BUILDING_RANGE_X,
       lane |-> ROAD_WIDTH + ROAD_MARGIN, widths |-> BuildingWidths],
      [loop |-> "straight", range |-> BUILDING_RANGE_X_STRAIGHT,
       lane |-> ROAD_WIDTH, widths |-> {20, 49}] }

\* Math.random() in thousandths for the lateral offset: a sweep of [0, 1)
\* and the draws next to the edges of the tested band of either loop
XDraws ==
    {20 * k : k \in 0 .. 49}
        \cup {433, 434, 450, 451, 499, 500, 501, 549, 550, 566, 567, 999}

Min(a, b) == IF a <= b THEN a ELSE b
Abs(a) == IF a < 0 THEN -a ELSE a

\* Math.ceil(n / d) for d > 0
Ceil(n, d) == 0 - ((0 - n) \div d)
Max(a, b) == IF a >= b THEN a ELSE b

\* Math.round(n / d) for n >= 0, d > 0: floor(n/d + 0.5)
Round(n, d) == (2 * n + d) \div (2 * d)

---------------------------------------------------------------------------
(* The program state as one value, so that a handler can call another. *)

Cur == [scene |-> scene, renderer |-> renderer, animationId |-> animationId,
        isVisible |-> isVisible, visibilityObserver |-> visibilityObserver,
        observing |-> observing, disposeCalls |-> disposeCalls,
        frameCounter |-> frameCounter, cityChunks |-> cityChunks,
        totalDistance |-> totalDistance, cameraZ |-> cameraZ, chunkZ |-> chunkZ,
        sceneChunks |-> sceneChunks, chunkMeshes |-> chunkMeshes,
        materials |-> materials, disposeCount |-> disposeCount,
        created |-> created, chunksCreated |-> chunksCreated,
        rafCalls |-> rafCalls, frameSteps |-> frameSteps,
        cameraAspect |-> cameraAspect, rendererSize |-> rendererSize,
        sinceLast |-> sinceLast,
        frameCount |-> frameCount, currentFPS |-> currentFPS,
        pixelRatio |-> pixelRatio, rafPending |-> rafPending,
        framesDrawn |-> framesDrawn, recycleCount |-> recycleCount,
        drawnSince |-> drawnSince, fpsReads |-> fpsReads,
        windowMs |-> windowMs, windowFrames |-> windowFrames, threw |-> threw]

Commit(s) ==
    /\ scene' = s.scene
    /\ renderer' = s.renderer
    /\ animationId' = s.animationId
    /\ isVisible' = s.isVisible
    /\ visibilityObserver' = s.visibilityObserver
    /\ observing' = s.observing
    /\ disposeCalls' = s.disposeCalls
    /\ frameCounter' = s.frameCounter
    /\ cityChunks' = s.cityChunks
    /\ totalDistance' = s.totalDistance
    /\ cameraZ' = s.cameraZ
    /\ chunkZ' = s.chunkZ
    /\ sceneChunks' = s.sceneChunks
    /\ chunkMeshes' = s.chunkMeshes
    /\ materials' = s.materials
    /\ disposeCount' = s.disposeCount
    /\ created' = s.created
    /\ chunksCreated' = s.chunksCreated
    /\ rafCalls' = s.rafCalls
    /\ frameSteps' = s.frameSteps
    /\ cameraAspect' = s.cameraAspect
    /\ rendererSize' = s.rendererSize
    /\ sinceLast' = s.sinceLast
    /\ frameCount' = s.frameCount
    /\ currentFPS' = s.currentFPS
    /\ pixelRatio' = s.pixelRatio
    /\ rafPending' = s.rafPending
    /\ framesDrawn' = s.framesDrawn
    /\ recycleCount' = s.recycleCount
    /\ drawnSince' = s.drawnSince
    /\ fpsReads' = s.fpsReads
    /\ windowMs' = s.windowMs
    /\ windowFrames' = s.windowFrames
    /\ threw' = s.threw

---------------------------------------------------------------------------
(* performance.ts *)

\* getOptimalPixelRatio: min(window.devicePixelRatio || 1, cap of the tier)
GetOptimalPixelRatio(mobile, dpr) ==
    LET native == IF dpr = 0 THEN 100 ELSE dpr
    IN  IF mobile THEN Min(native, mobilePixelRatio)
                  ELSE Min(native, desktopPixelRatio)

\* measureFPS: gap is the time since the previous reading of the clock
MeasureFPS(s, gap) ==
    LET n == s.frameCount + 1
        elapsed == s.sinceLast + gap
    IN  IF elapsed >= WINDOW_MS
        THEN [s EXCEPT !.currentFPS = Round(n * 1000, elapsed),
                       !.frameCount = 0,
                       !.sinceLast = 0,
                       !.drawnSince = 0,
                       !.fpsReads = @ + 1,
                       !.windowMs = elapsed,
                       !.windowFrames = s.drawnSince]
        ELSE [s EXCEPT !.frameCount = n,
                       !.sinceLast = elapsed,
                       !.fpsReads = @ + 1]

\* adjustRendererQuality(renderer, targetFPS)
AdjustRendererQuality(s, targetFPS) ==
    IF s.currentFPS * 10 < targetFPS * 8
    THEN LET newRatio == Max(MIN_PIXEL_RATIO, s.pixelRatio - QUALITY_STEP)
         IN  IF newRatio # s.pixelRatio
             THEN [s EXCEPT !.pixelRatio = newRatio]
             ELSE s
    ELSE s

\* variant: the emissive map is forgotten
DisposeMaterial_noEmissive(table, m) ==
    (IF table[m].standard /\ table[m].map[1] # "null"
     THEN <<table[m].map>> ELSE <<>>)
    \o <<m>>

\* disposeMaterial: the dispose() calls it makes, in order (normalMap,
\* roughnessMap and metalnessMap are never set by buildings.ts)
DisposeMaterial(table, m) ==
    (IF table[m].standard /\ table[m].map[1] # "null"
     THEN <<table[m].map>> ELSE <<>>)
    \o (IF table[m].standard /\ table[m].emissiveMap[1] # "null"
        THEN <<table[m].emissiveMap>> ELSE <<>>)
    \o <<m>>

\* the traverse callback of disposeResources on one mesh: its dispose() calls
DisposeMesh(table, mesh) ==
    <<mesh.geometry>> \o DisposeMaterial(table, mesh.material)

\* the dispose() calls of object.traverse over the chunk groups of the scene:
\* <<chunk, mesh, call>> positions and the resource each one hits
TraverseCalls(table, meshesOf, chunks) ==
    UNION {UNION {{<<c, n, k>> : k \in 1 .. Len(DisposeMesh(table, meshesOf[c][n]))}
                  : n \in 1 .. Len(meshesOf[c])}
           : c \in chunks}

\* disposeResources(scene): every call adds one to the count of its target
DisposeResources(s) ==
    LET calls == TraverseCalls(s.materials, s.chunkMeshes, s.sceneChunks)
        hits == {<<DisposeMesh(s.materials, s.chunkMeshes[p[1]][p[2]])[p[3]], p>>
                    : p \in calls}
        Before(x) == IF x \in DOMAIN s.disposeCount THEN s.disposeCount[x] ELSE 0
    IN  [s EXCEPT !.disposeCount =
            [x \in DOMAIN s.disposeCount \cup {q[1] : q \in hits} |->
                Before(x) + Cardinality({q \in hits : q[1] = x})]]

---------------------------------------------------------------------------
(* buildings.ts: the span built into the chunk of a slot *)

\* createCityChunk: zStart = -chunkIndex * CHUNK_SIZE
ZStart(chunkIndex) == -chunkIndex * CHUNK_SIZE

\* createCityChunk: zEnd = zStart - CHUNK_SIZE
ZEnd(chunkIndex) == ZStart(chunkIndex) - CHUNK_SIZE

(* The GPU-side resources.  A geometry, material or texture is named by
   <<class, chunk, building, part, n>>; building 0 is the chunk's own ground,
   and chunk counts the createCityChunk calls: 0, 1 and 2 are the chunks of
   the slots of the first scene, 3, 4 and 5 those of the second. *)

NoEntries == <<>>
NoTexture == <<"null", 0, 0, "", 0>>

Mesh(g, m) == [geometry |-> g, material |-> m]

\* new THREE.MeshStandardMaterial without maps, new THREE.MeshBasicMaterial
PlainMaterial == [standard |-> TRUE, map |-> NoTexture, emissiveMap |-> NoTexture]
BasicMaterial == [standard |-> FALSE, map |-> NoTexture, emissiveMap |-> NoTexture]

\* createBuildingMaterial: a window texture as map, its clone as emissiveMap
CreateBuildingMaterial(i, b) ==
    [standard |-> TRUE,
     map |-> <<"texture", i, b, "map", 0>>,
     emissiveMap |-> <<"texture", i, b, "emissiveMap", 0>>]

\* the material object behind a material name
MaterialFor(m) ==
    IF m[4] = "wall" THEN CreateBuildingMaterial(m[2], m[3])
    ELSE IF m[4] = "beacon" THEN BasicMaterial
    ELSE PlainMaterial

\* addRoofDetails, the call-th call for building b of slot i: count boxes
\* that share one material, and a beacon when h > 150 (h100 is 100 * h)
AddRoofDetails(i, b, call, count, h100) ==
    [k \in 1 .. count |->
        Mesh(<<"geometry", i, b, "roofbox", 10 * call + k>>,
             <<"material", i, b, "roof", call>>)]
    \o (IF h100 > BEACON_HEIGHT * 100
        THEN <<Mesh(<<"geometry", i, b, "beacon", call>>,
                    <<"material", i, b, "beacon", call>>)>>
        ELSE <<>>)

\* createComplexAvailableBuilding: the meshes of building b of slot i; kind
\* holds the random draws (style, height, sub-block share, fins, box counts)
CreateComplexAvailableBuilding(i, b, kind) ==
    LET mat == <<"material", i, b, "wall", 0>>
        Block(n) == Mesh(<<"geometry", i, b, "block", n>>, mat)
    IN  IF kind.style = "L"
        THEN <<Block(1), Block(2)>>
             \o AddRoofDetails(i, b, 1, kind.roof1, kind.height * 100)
             \o AddRoofDetails(i, b, 2, kind.roof2, kind.height * kind.subPct)
        ELSE IF kind.style = "tapered"
        THEN <<Block(1), Block(2), Block(3)>>
             \o AddRoofDetails(i, b, 1, kind.roof1, kind.height * 100)
        ELSE <<Block(1)>>
             \o (IF kind.fins
                 THEN [n \in 1 .. FIN_COUNT |->
                         Mesh(<<"geometry", i, b, "fin", n>>,
                              <<"material", i, b, "fin", 0>>)]
                 ELSE <<>>)
             \o AddRoofDetails(i, b, 1, kind.roof1, kind.height * 100)

RECURSIVE BuildingsFrom(_, _, _)
\* the loop of createCityChunk over the buildings b .. Len(kinds)
BuildingsFrom(i, b, kinds) ==
    IF b > Len(kinds) THEN <<>>
    ELSE CreateComplexAvailableBuilding(i, b, kinds[b])
         \o BuildingsFrom(i, b + 1, kinds)

\* createCityChunk: floor, road and the buildings, as the meshes of the group
CreateCityChunk(chunkIndex, kinds) ==
    <<Mesh(<<"geometry", chunkIndex, 0, "floor", 0>>,
           <<"material", chunkIndex, 0, "floor", 0>>),
      Mesh(<<"geometry", chunkIndex, 0, "road", 0>>,
           <<"material", chunkIndex, 0, "road", 0>>)>>
    \o BuildingsFrom(chunkIndex, 1, kinds)

Range(seq) == {seq[n] : n \in 1 .. Len(seq)}

\* every createCityChunk call makes new objects: the name of a resource, as
\* given above for the first three chunks, moved on by the number of chunks
\* that were built before
Renamed(x, before) == <<x[1], x[2] + before, x[3], x[4], x[5]>>

NewObjects(meshes, before) ==
    [k \in 1 .. Len(meshes) |->
        Mesh(Renamed(meshes[k].geometry, before), Renamed(meshes[k].material, before))]

\* every geometry, material and texture a list of meshes brings with it
ResourcesOf(meshes) ==
    LET mats == {x.material : x \in Range(meshes)}
    IN  {x.geometry : x \in Range(meshes)}
        \cup mats
        \cup ({MaterialFor(m).map : m \in mats} \ {NoTexture})
        \cup ({MaterialFor(m).emissiveMap : m \in mats} \ {NoTexture})

---------------------------------------------------------------------------
(* buildings.ts: the window texture of a building *)

\* createComplexAvailableBuilding: the theme from r = Math.random()
ThemeFor(r) == IF r < 400 THEN "warm" ELSE IF r < 800 THEN "cool" ELSE "mix"

\* createWindowTexture: canvas.height = Math.round((height / width) * resolution)
CanvasHeight(width, height) == Round(height * RESOLUTION, width)

\* createWindowTexture: the window pattern from style = Math.random()
WindowPattern(style) ==
    IF style < 400 THEN [winW |-> 4, winH |-> 8, gapX |-> 4, gapY |-> 6]
    ELSE IF style < 700 THEN [winW |-> 2, winH |-> 20, gapX |-> 6, gapY |-> 4]
    ELSE [winW |-> 8, winH |-> 8, gapX |-> 4, gapY |-> 4]

\* createWindowTexture: cols and rows, Math.floor(extent / (win + gap))
WindowCount(extent, win, gap) == extent \div (win + gap)

\* createWindowTexture: the palette of a theme
PaletteFor(theme) ==
    IF theme = "warm" THEN WINDOW_COLORS_WARM
    ELSE IF theme = "cool" THEN WINDOW_COLORS_COOL
    ELSE WINDOW_COLORS_WARM \o WINDOW_COLORS_COOL

\* variant: the colour is picked whether or not the cell is lit
CellColour_keepStyle(theme, floorActive, litDraw, indexDraw, offDraw) ==
    LET isLit == IF floorActive THEN litDraw < 700 ELSE litDraw < 50
        palette == PaletteFor(theme)
        picked == palette[((indexDraw * Len(palette)) \div 1000) + 1]
    IN  [lit |-> isLit,
         colour |-> IF offDraw < 50
                    THEN (IF theme = "warm" THEN WINDOW_COLORS_COOL[1]
                                            ELSE WINDOW_COLORS_WARM[1])
                    ELSE picked]

\* createWindowTexture, the body of the inner loop: is the cell lit, and the
\* colour it is filled with
CellColour(theme, floorActive, litDraw, indexDraw, offDraw) ==
    LET isLit == IF floorActive THEN litDraw < 700 ELSE litDraw < 50
        palette == PaletteFor(theme)
        picked == palette[((indexDraw * Len(palette)) \div 1000) + 1]
    IN  [lit |-> isLit,
         colour |-> IF ~isLit THEN "#000000"
                    ELSE IF offDraw < 50
                    THEN (IF theme = "warm" THEN WINDOW_COLORS_COOL[1]
                                            ELSE WINDOW_COLORS_WARM[1])
                    ELSE picked]

\* createWindowTexture up to the loops: the canvas, the wall fill, the counts
CreateCanvas(call) ==
    LET pattern == WindowPattern(call.style)
        canvasHeight == CanvasHeight(call.width, call.height)
    IN  [fn |-> "createWindowTexture",
         canvasWidth |-> RESOLUTION,
         canvasHeight |-> canvasHeight,
         pattern |-> pattern,
         cols |-> WindowCount(RESOLUTION, pattern.winW, pattern.gapX),
         rows |-> WindowCount(canvasHeight, pattern.winH, pattern.gapY),
         row |-> 0,
         cell |-> "none",
         fillStyle |-> "#020202",
         returned |-> FALSE]

\* one pass of the outer loop: the floor's draw, then the cells of the row;
\* the draws given are those of the last cell of the row
FillRow(call, r, floorDraw, litDraw, indexDraw, offDraw) ==
    LET cell == CellColour(call.theme, floorDraw < 400, litDraw, indexDraw, offDraw)
    IN  IF r.cols > 0
        THEN [r EXCEPT !.row = @ + 1,
                       !.cell = IF cell.lit THEN "lit" ELSE "unlit",
                       !.fillStyle = cell.colour]
        ELSE [r EXCEPT !.row = @ + 1]

---------------------------------------------------------------------------
(* CityScene.ts *)

\* initCityChunks; content holds the random draws of createCityChunk
InitCityChunks(s, content) ==
    LET built == [i \in Slots |->
                     NewObjects(CreateCityChunk(i, content[i]), s.chunksCreated)]
    IN  [s EXCEPT !.sceneChunks = (@ \ {s.cityChunks[i] : i \in 1 .. Len(s.cityChunks)})
                                    \cup Slots,
                  !.chunkMeshes = built,
                  !.materials =
                      [m \in UNION {{x.material : x \in Range(built[i])} : i \in Slots}
                          |-> MaterialFor(m)],
                  !.created = @ \cup UNION {ResourcesOf(built[i]) : i \in Slots},
                  !.chunksCreated = @ + CHUNK_COUNT,
                  !.cityChunks = [i \in 1 .. CHUNK_COUNT |-> i - 1],
                  !.chunkZ = [i \in Slots |-> 0],
                  !.totalDistance = 0,
                  !.recycleCount = 0]

\* variant: the passed chunk is put CHUNK_SIZE behind the entry that is last
\* in the array before the shift (the lastChunk idea left commented out)
UpdateCityInfiniteLoop_behindLast(s) ==
    LET moved == [s EXCEPT !.cameraZ = @ - MOVE_SPEED,
                           !.totalDistance = @ + MOVE_SPEED]
    IN  IF moved.totalDistance >= CHUNK_SIZE /\ Len(moved.cityChunks) > 0
        THEN LET passedChunk == Head(moved.cityChunks)
                 lastChunk == moved.cityChunks[Len(moved.cityChunks)]
             IN  [moved EXCEPT
                    !.chunkZ[passedChunk] = moved.chunkZ[lastChunk] - CHUNK_SIZE,
                    !.cityChunks = Append(Tail(moved.cityChunks), passedChunk),
                    !.totalDistance = @ - CHUNK_SIZE,
                    !.recycleCount = @ + 1]
        ELSE moved

\* variant: the recycle test is > instead of >=
UpdateCityInfiniteLoop_strict(s) ==
    LET moved == [s EXCEPT !.cameraZ = @ - MOVE_SPEED,
                           !.totalDistance = @ + MOVE_SPEED]
    IN  IF moved.totalDistance > CHUNK_SIZE /\ Len(moved.cityChunks) > 0
        THEN LET passedChunk == Head(moved.cityChunks)
             IN  [moved EXCEPT
                    !.chunkZ[passedChunk] = @ - CHUNK_COUNT * CHUNK_SIZE,
                    !.cityChunks = Append(Tail(moved.cityChunks), passedChunk),
                    !.totalDistance = @ - CHUNK_SIZE,
                    !.recycleCount = @ + 1]
        ELSE moved

\* variant: the passed chunk is thrown away and a new one is generated
UpdateCityInfiniteLoop_regenerate(s) ==
    LET moved == [s EXCEPT !.cameraZ = @ - MOVE_SPEED,
                           !.totalDistance = @ + MOVE_SPEED]
    IN  IF moved.totalDistance >= CHUNK_SIZE /\ Len(moved.cityChunks) > 0
        THEN LET passedChunk == Head(moved.cityChunks)
             IN  [moved EXCEPT
                    !.chunkMeshes[passedChunk] = CreateCityChunk(passedChunk, <<>>),
                    !.chunksCreated = @ + 1,
                    !.chunkZ[passedChunk] = @ - CHUNK_COUNT * CHUNK_SIZE,
                    !.cityChunks = Append(Tail(moved.cityChunks), passedChunk),
                    !.totalDistance = @ - CHUNK_SIZE,
                    !.recycleCount = @ + 1]
        ELSE moved

\* variant: pop() instead of shift(): the farthest chunk is taken
UpdateCityInfiniteLoop_pop(s) ==
    LET moved == [s EXCEPT !.cameraZ = @ - MOVE_SPEED,
                           !.totalDistance = @ + MOVE_SPEED]
    IN  IF moved.totalDistance >= CHUNK_SIZE /\ Len(moved.cityChunks) > 0
        THEN LET n == Len(moved.cityChunks)
                 passedChunk == moved.cityChunks[n]
             IN  [moved EXCEPT
                    !.chunkZ[passedChunk] = @ - CHUNK_COUNT * CHUNK_SIZE,
                    !.cityChunks = Append(SubSeq(moved.cityChunks, 1, n - 1),
                                          passedChunk),
                    !.totalDistance = @ - CHUNK_SIZE,
                    !.recycleCount = @ + 1]
        ELSE moved

\* variant: the counter is lowered by the length of the whole pool
UpdateCityInfiniteLoop_poolDecrement(s) ==
    LET moved == [s EXCEPT !.cameraZ = @ - MOVE_SPEED,
                           !.totalDistance = @ + MOVE_SPEED,
                           !.frameSteps = Append(@, "advance")]
    IN  IF moved.totalDistance >= CHUNK_SIZE /\ Len(moved.cityChunks) > 0
        THEN LET passedChunk == Head(moved.cityChunks)
             IN  [moved EXCEPT
                    !.chunkZ[passedChunk] = @ - CHUNK_COUNT * CHUNK_SIZE,
                    !.cityChunks = Append(Tail(moved.cityChunks), passedChunk),
                    !.totalDistance = @ - CHUNK_COUNT * CHUNK_SIZE,
                    !.recycleCount = @ + 1,
                    !.frameSteps = Append(@, "recycle")]
        ELSE moved

\* variant: the recycle test reads the counter before the camera moves
UpdateCityInfiniteLoop_testFirst(s) ==
    LET moved == [s EXCEPT !.cameraZ = @ - MOVE_SPEED,
                           !.totalDistance = @ + MOVE_SPEED,
                           !.frameSteps = Append(@, "advance")]
    IN  IF s.totalDistance >= CHUNK_SIZE /\ Len(moved.cityChunks) > 0
        THEN LET passedChunk == Head(moved.cityChunks)
             IN  [moved EXCEPT
                    !.chunkZ[passedChunk] = @ - CHUNK_COUNT * CHUNK_SIZE,
                    !.cityChunks = Append(Tail(moved.cityChunks), passedChunk),
                    !.totalDistance = @ - CHUNK_SIZE,
                    !.recycleCount = @ + 1,
                    !.frameSteps = Append(@, "recycle")]
        ELSE moved

\* variant: the passed chunk is put back at the front of the array
UpdateCityInfiniteLoop_unshift(s) ==
    LET moved == [s EXCEPT !.cameraZ = @ - MOVE_SPEED,
                           !.totalDistance = @ + MOVE_SPEED,
                           !.frameSteps = Append(@, "advance")]
    IN  IF moved.totalDistance >= CHUNK_SIZE /\ Len(moved.cityChunks) > 0
        THEN LET passedChunk == Head(moved.cityChunks)
             IN  [moved EXCEPT
                    !.chunkZ[passedChunk] = @ - CHUNK_COUNT * CHUNK_SIZE,
                    !.cityChunks = <<passedChunk>> \o Tail(moved.cityChunks),
                    !.totalDistance = @ - CHUNK_SIZE,
                    !.recycleCount = @ + 1,
                    !.frameSteps = Append(@, "recycle")]
        ELSE moved

\* updateCityInfiniteLoop
UpdateCityInfiniteLoop(s) ==
    LET moved == [s EXCEPT !.cameraZ = @ - MOVE_SPEED,
                           !.totalDistance = @ + MOVE_SPEED,
                           !.frameSteps = Append(@, "advance")]
    IN  IF moved.totalDistance >= CHUNK_SIZE /\ Len(moved.cityChunks) > 0
        THEN LET passedChunk == Head(moved.cityChunks)
             IN  [moved EXCEPT
                    !.chunkZ[passedChunk] = @ - CHUNK_COUNT * CHUNK_SIZE,
                    !.cityChunks = Append(Tail(moved.cityChunks), passedChunk),
                    !.totalDistance = @ - CHUNK_SIZE,
                    !.recycleCount = @ + 1,
                    !.frameSteps = Append(@, "recycle")]
        ELSE moved

\* variant: isWebGLSupported without the try / catch
IsWebGLSupported_noCatch(env) ==
    IF ~env.ctor THEN "false"
    ELSE IF env.first = "context" THEN "true"
    ELSE IF env.first = "throws" THEN "throws"
    ELSE IF env.second = "context" THEN "true"
    ELSE IF env.second = "throws" THEN "throws"
    ELSE "false"

\* isWebGLSupported: "true" or "false"; an exception of getContext is caught
IsWebGLSupported(env) ==
    IF ~env.ctor THEN "false"
    ELSE IF env.first = "context" THEN "true"
    ELSE IF env.first = "throws" THEN "false"
    ELSE IF env.second = "context" THEN "true"
    ELSE "false"

\* variant: the fallback only logs the warning
ShowFallback_logOnly(background) == background

\* showFallback: the container gets the radial gradient as its background
ShowFallback(background) == "gradient"

\* requestAnimationFrame: the host hands out a handle that is not in use
NewHandle(pending) == CHOOSE h \in 1 .. (Cardinality(pending) + 1) : h \notin pending

\* variant: the interval test is > instead of >=
QualityCheck_late(s, gap) ==
    LET counted == [s EXCEPT !.frameCounter = @ + 1]
    IN  IF counted.frameCounter > FPS_CHECK_INTERVAL
        THEN LET measured == MeasureFPS(counted, gap)
                 adjusted == IF measured.currentFPS < FPS_GATE
                             THEN AdjustRendererQuality(measured, TARGET_FPS)
                             ELSE measured
             IN  [adjusted EXCEPT !.frameCounter = 0]
        ELSE counted

\* the quality block of animate: every FPS_CHECK_INTERVAL-th frame
QualityCheck(s, gap) ==
    LET counted == [s EXCEPT !.frameCounter = @ + 1]
    IN  IF counted.frameCounter >= FPS_CHECK_INTERVAL
        THEN LET measured ==
                     MeasureFPS([counted EXCEPT
                                    !.frameSteps = Append(@, "measureFPS")], gap)
                 adjusted ==
                     IF measured.currentFPS < FPS_GATE
                     THEN AdjustRendererQuality(
                              [measured EXCEPT
                                  !.frameSteps = Append(@, "adjustRendererQuality")],
                              TARGET_FPS)
                     ELSE measured
             IN  [adjusted EXCEPT !.frameCounter = 0]
        ELSE counted

\* renderer.render(scene, camera)
Render(s) == [s EXCEPT !.framesDrawn = @ + 1, !.drawnSince = @ + 1,
                      !.frameSteps = Append(@, "render")]

\* variant: the next callback is registered at the end of the frame
Animate_registerLast(s, gap) ==
    IF ~s.isVisible
    THEN [s EXCEPT !.animationId = 0, !.frameSteps = <<>>]
    ELSE LET drawn == Render(UpdateCityInfiniteLoop(
                          QualityCheck([s EXCEPT !.frameSteps = <<>>], gap)))
             h == NewHandle(drawn.rafPending)
         IN  [drawn EXCEPT !.animationId = h,
                           !.rafPending = @ \cup {h},
                           !.rafCalls = @ + 1,
                           !.frameSteps = Append(@, "requestAnimationFrame")]

\* variant: the frame is drawn before the scene is updated
Animate_drawFirst(s, gap) ==
    IF ~s.isVisible
    THEN [s EXCEPT !.animationId = 0, !.frameSteps = <<>>]
    ELSE LET h == NewHandle(s.rafPending)
             registered == [s EXCEPT !.animationId = h,
                                     !.rafPending = @ \cup {h},
                                     !.rafCalls = @ + 1,
                                     !.frameSteps = <<"requestAnimationFrame">>]
         IN  UpdateCityInfiniteLoop(Render(QualityCheck(registered, gap)))

\* variant: animate without the visibility test
Animate_noPause(s, gap) ==
    LET h == NewHandle(s.rafPending)
        registered == [s EXCEPT !.animationId = h,
                                !.rafPending = @ \cup {h}]
    IN  Render(UpdateCityInfiniteLoop(QualityCheck(registered, gap)))

\* animate
Animate(s, gap) ==
    IF ~s.isVisible
    THEN [s EXCEPT !.animationId = 0, !.frameSteps = <<>>]
    ELSE LET h == NewHandle(s.rafPending)
             registered == [s EXCEPT !.animationId = h,
                                     !.rafPending = @ \cup {h},
                                     !.rafCalls = @ + 1,
                                     !.frameSteps = <<"requestAnimationFrame">>]
         IN  Render(UpdateCityInfiniteLoop(QualityCheck(registered, gap)))

\* variant: onVisible restarts the loop without looking at animationId
OnVisible_always(s, gap) == Animate([s EXCEPT !.isVisible = TRUE], gap)

\* the onVisible callback handed to createVisibilityObserver
OnVisible(s, gap) ==
    LET shown == [s EXCEPT !.isVisible = TRUE]
    IN  IF shown.animationId = 0 THEN Animate(shown, gap) ELSE shown

\* the onHidden callback handed to createVisibilityObserver
OnHidden(s) == [s EXCEPT !.isVisible = FALSE]

\* variant: the scene is released without the existence test
DisposeCityScene_unchecked(s) ==
    LET cancelled == IF s.animationId # 0
                     THEN [s EXCEPT !.rafPending = @ \ {s.animationId},
                                    !.animationId = 0]
                     ELSE s
        disconnected == IF cancelled.visibilityObserver # "null"
                        THEN [cancelled EXCEPT !.visibilityObserver = "null",
                                               !.observing = @ - 1]
                        ELSE cancelled
    IN  IF disconnected.scene = "undefined"
        THEN [disconnected EXCEPT !.threw = TRUE, !.disposeCalls = @ + 1]
        ELSE LET released == [DisposeResources(disconnected) EXCEPT !.scene = "disposed"]
                 closed == IF released.renderer # "undefined"
                           THEN [released EXCEPT !.renderer = "disposed"]
                           ELSE released
             IN  [closed EXCEPT !.cityChunks = <<>>, !.disposeCalls = @ + 1]

\* variant: the handle is cleared but cancelAnimationFrame is not called
DisposeCityScene_noCancel(s) ==
    LET cancelled == [s EXCEPT !.animationId = 0]
        disconnected == IF cancelled.visibilityObserver # "null"
                        THEN [cancelled EXCEPT !.visibilityObserver = "null",
                                               !.observing = @ - 1]
                        ELSE cancelled
        released == IF disconnected.scene # "undefined"
                    THEN [DisposeResources(disconnected) EXCEPT !.scene = "disposed"]
                    ELSE disconnected
        closed == IF released.renderer # "undefined"
                  THEN [released EXCEPT !.renderer = "disposed"]
                  ELSE released
    IN  [closed EXCEPT !.cityChunks = <<>>, !.disposeCalls = @ + 1]

\* disposeCityScene
DisposeCityScene(s) ==
    LET cancelled == IF s.animationId # 0
                     THEN [s EXCEPT !.rafPending = @ \ {s.animationId},
                                    !.animationId = 0]
                     ELSE s
        disconnected == IF cancelled.visibilityObserver # "null"
                        THEN [cancelled EXCEPT !.visibilityObserver = "null",
                                               !.observing = @ - 1]
                        ELSE cancelled
        released == IF disconnected.scene # "undefined"
                    THEN [DisposeResources(disconnected) EXCEPT !.scene = "disposed"]
                    ELSE disconnected
        closed == IF released.renderer # "undefined"
                  THEN [released EXCEPT !.renderer = "disposed"]
                  ELSE released
    IN  [closed EXCEPT !.cityChunks = <<>>, !.disposeCalls = @ + 1]

---------------------------------------------------------------------------
(* The initial state: the modules are loaded, nothing is constructed. *)

LifecycleInit ==
    /\ phase = "loaded"
    /\ scene = "undefined"
    /\ renderer = "undefined"
    /\ animationId = 0
    /\ isVisible = TRUE
    /\ visibilityObserver = "null"
    /\ observing = 0
    /\ disposeCalls = 0
    /\ frameCounter = 0
    /\ cityChunks = <<>>
    /\ totalDistance = 0
    /\ cameraZ = 0
    /\ chunkZ = [i \in Slots |-> 0]
    /\ sceneChunks = {}
    /\ chunkMeshes = [i \in Slots |-> <<>>]
    /\ materials = NoEntries
    /\ disposeCount = NoEntries
    /\ created = {}
    /\ chunksCreated = 0
    /\ rafCalls = 0
    /\ frameSteps = <<>>
    /\ cameraAspect = <<0, 0>>
    /\ rendererSize = <<0, 0>>
    /\ sinceLast = 0
    /\ frameCount = 0
    /\ currentFPS = 60
    /\ pixelRatio = 100
    /\ rafPending = {}
    /\ devicePixelRatio \in DevicePixelRatios
    /\ isMobile = FALSE
    /\ resizeListeners = <<>>
    /\ resizeTimers = <<>>
    /\ msSinceEvent = DEBOUNCE_MS
    /\ eventsSinceRun = 0
    /\ containerSize = DefaultSize
    /\ containerBackground = ""
    /\ webgl \in WebGLEnvs
    /\ threw = FALSE
    /\ framesDrawn = 0
    /\ recycleCount = 0
    /\ drawnSince = 0
    /\ fpsReads = 0
    /\ windowMs = 0
    /\ windowFrames = 0

Init ==
    /\ LifecycleInit
    /\ fnCall = NoCall
    /\ fnResult = NoCall

---------------------------------------------------------------------------
(* Actions: one per entry point or host callback. *)

\* initCityScene, WebGL missing: showFallback and return
InitFallback ==
    /\ IsWebGLSupported(webgl) # "true"
    /\ phase' = "fallback"
    /\ IF IsWebGLSupported(webgl) = "throws"
       THEN Commit([Cur EXCEPT !.threw = TRUE]) /\ UNCHANGED containerBackground
       ELSE Commit(Cur) /\ containerBackground' = ShowFallback(containerBackground)
    /\ UNCHANGED <<devicePixelRatio, isMobile, resizeListeners, resizeVars, webgl, fnCall, fnResult>>

\* initCityScene, WebGL present: a new scene, camera and renderer, the chunk
\* pool, one more resize listener, a new observer, and the first animate();
\* what the module keeps at its top level and does not assign here
\* (isVisible, frameCounter, the window of measureFPS, frame callbacks and
\* observers of an earlier scene) stays as it is
InitCityScene(mobile, gap, content) ==
    /\ IsWebGLSupported(webgl) = "true"
    /\ phase' = "running"
    /\ isMobile' = mobile
    /\ resizeListeners' = Append(resizeListeners, mobile)
    /\ resizeTimers' = Append(resizeTimers, <<>>)
    /\ LET built == [Cur EXCEPT !.scene = "live",
                                !.sceneChunks = {},
                                !.renderer = "live",
                                !.cameraAspect = containerSize,
                                !.rendererSize = containerSize,
                                !.cameraZ = 0,
                                !.pixelRatio = GetOptimalPixelRatio(mobile, devicePixelRatio)]
           observed == [InitCityChunks(built, content) EXCEPT
                           !.visibilityObserver = "connected",
                           !.observing = @ + 1]
       IN  Commit(Animate(observed, gap))
    /\ UNCHANGED <<devicePixelRatio, msSinceEvent, eventsSinceRun, containerSize,
                   containerBackground, webgl, fnCall, fnResult>>

\* the host runs a pending frame callback
FrameCallback(gap) ==
    /\ \E h \in rafPending :
         Commit(Animate([Cur EXCEPT !.rafPending = @ \ {h}], gap))
    /\ UNCHANGED hostVars

\* an observer that was not disconnected reports an entry with isIntersecting
VisibilityEnter(gap) ==
    /\ observing > 0
    /\ Commit(OnVisible(Cur, gap))
    /\ UNCHANGED hostVars

\* an observer that was not disconnected reports an entry without isIntersecting
VisibilityExit ==
    /\ observing > 0
    /\ Commit(OnHidden(Cur))
    /\ UNCHANGED hostVars

\* the debounced handler: clearTimeout(timeoutId), then setTimeout(func, wait)
Debounce(timers) == <<DEBOUNCE_MS>>

\* a window resize event, the container now having the given size: every
\* registered listener is called
ResizeEvent(size) ==
    /\ resizeListeners # <<>>
    /\ containerSize' = size
    /\ resizeTimers' = [k \in 1 .. Len(resizeTimers) |-> Debounce(resizeTimers[k])]
    /\ msSinceEvent' = 0
    /\ eventsSinceRun' = eventsSinceRun + 1
    /\ UNCHANGED <<progVars, phase, devicePixelRatio, isMobile, resizeListeners,
                   containerBackground, webgl, fnCall, fnResult>>

\* what is left on the pending timeouts
TimeLeft == {resizeTimers[p[1]][p[2]] : p \in TimerSlots(resizeTimers)}

\* up to dt ms pass, but no more than until the next timeout is due
Tick(dt) ==
    /\ TimeLeft # {}
    /\ \A t \in TimeLeft : t > 0
    /\ LET passed == IF \A t \in TimeLeft : t >= dt
                      THEN dt
                      ELSE CHOOSE d \in TimeLeft : \A t \in TimeLeft : t >= d
       IN  /\ resizeTimers' = [k \in 1 .. Len(resizeTimers) |->
                                  [j \in 1 .. Len(resizeTimers[k]) |->
                                      resizeTimers[k][j] - passed]]
           /\ msSinceEvent' = Min(DEBOUNCE_MS, msSinceEvent + passed)
    /\ UNCHANGED <<progVars, phase, devicePixelRatio, isMobile, resizeListeners,
                   eventsSinceRun, containerSize,
                   containerBackground, webgl, fnCall, fnResult>>

\* handleResize(container, isMobile), with the isMobile the listener captured
HandleResize(s, mobile) ==
    [s EXCEPT !.cameraAspect = containerSize,
              !.rendererSize = containerSize,
              !.pixelRatio = GetOptimalPixelRatio(mobile, devicePixelRatio)]

\* without position j
Without(seq, j) ==
    [n \in 1 .. (Len(seq) - 1) |-> IF n < j THEN seq[n] ELSE seq[n + 1]]

\* a debounce timeout is due: it runs handleResize; of the timeouts that are
\* due the host runs the one set first, which is that of the listener
\* registered first
ResizeTimerFires ==
    /\ \E p \in TimerSlots(resizeTimers) :
          /\ resizeTimers[p[1]][p[2]] = 0
          /\ \A q \in TimerSlots(resizeTimers) :
                resizeTimers[q[1]][q[2]] = 0 =>
                   (q[1] > p[1] \/ (q[1] = p[1] /\ q[2] >= p[2]))
          /\ resizeTimers' = [resizeTimers EXCEPT ![p[1]] = Without(@, p[2])]
          /\ Commit(HandleResize(Cur, resizeListeners[p[1]]))
    /\ eventsSinceRun' = 0
    /\ UNCHANGED <<phase, devicePixelRatio, isMobile, resizeListeners,
                   msSinceEvent, containerSize,
                   containerBackground, webgl, fnCall, fnResult>>

\* disposeCityScene
Dispose ==
    /\ phase' = "disposed"
    /\ Commit(DisposeCityScene(Cur))
    /\ UNCHANGED <<devicePixelRatio, isMobile, resizeListeners, resizeVars,
                   containerBackground, webgl, fnCall, fnResult>>

---------------------------------------------------------------------------
(* The lifecycle specification: every entry point and every host callback,
   in any order, for up to MaxCalls calls of initCityScene (with WebGL) and
   disposeCityScene, MaxLife frames and bursts of MaxBurst resize events; a
   scene is built on a desktop display with a pixel ratio of 3. *)

Next ==
    \/ InitFallback
    \/ /\ Len(resizeListeners) + disposeCalls < MaxCalls
       /\ devicePixelRatio = 300
       /\ \E gap \in SteadyGapMs, content \in DefaultContent :
             InitCityScene(FALSE, gap, content)
    \/ framesDrawn < MaxLife /\ \E gap \in SteadyGapMs : FrameCallback(gap)
    \/ framesDrawn < MaxLife /\ \E gap \in SteadyGapMs : VisibilityEnter(gap)
    \/ VisibilityExit
    \/ eventsSinceRun < MaxBurst /\ ResizeEvent(DefaultSize)
    \/ Tick(DEBOUNCE_MS)
    \/ ResizeTimerFires
    \/ Len(resizeListeners) + disposeCalls < MaxCalls /\ Dispose

Spec == Init /\ [][Next]_vars

(* The loop specification: one scene, every event of the running scene, any
   clock, up to MaxFrames frames; resize events come one at a time. *)

LoopNext ==
    \/ /\ resizeListeners = <<>>
       /\ \E mobile \in BOOLEAN, gap \in GapMs, content \in DefaultContent :
             InitCityScene(mobile, gap, content)
    \/ framesDrawn < MaxFrames /\ \E gap \in GapMs : FrameCallback(gap)
    \/ framesDrawn < MaxFrames /\ \E gap \in GapMs : VisibilityEnter(gap)
    \/ VisibilityExit
    \/ ~resizeTimer /\ ResizeEvent(DefaultSize)
    \/ Tick(DEBOUNCE_MS)
    \/ ResizeTimerFires

LoopSpec == Init /\ [][LoopNext]_vars

(* The travel specification: one scene and its steady loop, followed for
   MaxRecycles recycles, in a browser whose first getContext call succeeds,
   on a display that reports no pixel ratio or a ratio of 3. *)

TravelNext ==
    \/ /\ webgl.first = "context"
       /\ devicePixelRatio \in {0, 300}
       /\ resizeListeners = <<>>
       /\ \E mobile \in BOOLEAN, gap \in SteadyGapMs, content \in DefaultContent :
             InitCityScene(mobile, gap, content)
    \/ recycleCount < MaxRecycles /\ \E gap \in SteadyGapMs : FrameCallback(gap)
    \/ recycleCount < MaxRecycles /\ \E gap \in SteadyGapMs : VisibilityEnter(gap)
    \/ VisibilityExit

TravelSpec == Init /\ [][TravelNext]_vars

(* The release specification: one scene with any of the scene contents on a
   desktop display with a pixel ratio of 3, a steady loop for up to
   MaxRecycles recycles, and up to MaxDisposes teardowns at any moment. *)

ReleaseNext ==
    \/ /\ webgl.first = "context"
       /\ devicePixelRatio = 300
       /\ resizeListeners = <<>>
       /\ \E gap \in SteadyGapMs, content \in ContentChoices :
             InitCityScene(FALSE, gap, content)
    \/ recycleCount < MaxRecycles /\ \E gap \in SteadyGapMs : FrameCallback(gap)
    \/ disposeCalls < MaxDisposes /\ Dispose

ReleaseSpec == Init /\ [][ReleaseNext]_vars

(* The travel under the host's scheduling: a frame callback that stays
   registered is eventually run. *)

(* The texture specification: createWindowTexture for the widths, heights
   and themes createCityChunk hands to it, and for facades of an extreme
   aspect ratio. *)

TextureCalls ==
    { [fn |-> "createWindowTexture", width |-> w, height |-> h,
       theme |-> ThemeFor(t), style |-> s]
        : w \in BuildingWidths, h \in BuildingHeights,
          t \in ThemeDraws, s \in StyleDraws }
    \cup
    { [fn |-> "createWindowTexture", width |-> w, height |-> h,
       theme |-> ThemeFor(t), style |-> s]
        : w \in FlatWidths, h \in FlatHeights,
          t \in ThemeDraws, s \in StyleDraws }

TextureInit ==
    /\ LifecycleInit
    /\ devicePixelRatio = 0
    /\ webgl.first = "context"
    /\ fnCall \in TextureCalls
    /\ fnResult = NoCall

\* createWindowTexture is entered: canvas, wall colour, pattern, counts
BeginWindowTexture ==
    /\ fnCall.fn = "createWindowTexture"
    /\ fnResult = NoCall
    /\ fnResult' = CreateCanvas(fnCall)
    /\ UNCHANGED <<progVars, phase, devicePixelRatio, isMobile, resizeListeners,
                   resizeVars, containerBackground, webgl, fnCall>>

\* one row of windows is drawn
FillWindowRow(floorDraw, litDraw, indexDraw, offDraw) ==
    /\ fnResult.fn = "createWindowTexture"
    /\ ~fnResult.returned
    /\ fnResult.row < fnResult.rows
    /\ fnResult' = FillRow(fnCall, fnResult, floorDraw, litDraw, indexDraw, offDraw)
    /\ UNCHANGED <<progVars, phase, devicePixelRatio, isMobile, resizeListeners,
                   resizeVars, containerBackground, webgl, fnCall>>

\* the loops are over: the CanvasTexture is returned
ReturnWindowTexture ==
    /\ fnResult.fn = "createWindowTexture"
    /\ ~fnResult.returned
    /\ fnResult.row >= fnResult.rows
    /\ fnResult' = [fnResult EXCEPT !.returned = TRUE]
    /\ UNCHANGED <<progVars, phase, devicePixelRatio, isMobile, resizeListeners,
                   resizeVars, containerBackground, webgl, fnCall>>

TextureNext ==
    \/ BeginWindowTexture
    \/ \E floorDraw \in FloorDraws, litDraw \in LitDraws,
          indexDraw \in IndexDraws, offDraw \in OffThemeDraws :
          FillWindowRow(floorDraw, litDraw, indexDraw, offDraw)
    \/ ReturnWindowTexture

TextureSpec == TextureInit /\ [][TextureNext]_vars

(* The placement specification: the lateral offset createCityChunk gives to
   one building, for either placement loop and every draw of XDraws.
   Offsets are in thousandths of a world unit. *)

\* randomRange(min, max) for a draw in thousandths, in thousandths
RandomRange(draw, min, max) == draw * (max - min) + 1000 * min

\* variant: the offset is always shifted to the right
PlaceX_sameSide(x, lane) ==
    IF Abs(x) < 1000 * lane THEN x + 1000 * ROAD_WIDTH ELSE x

\* the road avoidance of createCityChunk, on an offset in thousandths
PlaceX(x, lane) ==
    IF Abs(x) < 1000 * lane
    THEN IF x > 0 THEN x + 1000 * ROAD_WIDTH ELSE x - 1000 * ROAD_WIDTH
    ELSE x

PlacementCalls ==
    UNION { { [fn |-> "createCityChunk", loop |-> l.loop, range |-> l.range,
                lane |-> l.lane, draw |-> r, width |-> w]
                : r \in XDraws, w \in l.widths }
            : l \in PlacementLoops }

PlacementInit ==
    /\ LifecycleInit
    /\ devicePixelRatio = 0
    /\ webgl.first = "context"
    /\ fnCall \in PlacementCalls
    /\ fnResult = NoCall

\* one pass of the placement loop up to the final value of x
PlaceBuilding ==
    /\ fnCall.fn = "createCityChunk"
    /\ fnResult = NoCall
    /\ fnResult' = [fn |-> "createCityChunk",
                    x0 |-> RandomRange(fnCall.draw, -fnCall.range, fnCall.range),
                    x |-> PlaceX(RandomRange(fnCall.draw, -fnCall.range, fnCall.range),
                                 fnCall.lane),
                    width |-> 1000 * fnCall.width]
    /\ UNCHANGED <<progVars, phase, devicePixelRatio, isMobile, resizeListeners,
                   resizeVars, containerBackground, webgl, fnCall>>

PlacementNext == PlaceBuilding

PlacementSpec == PlacementInit /\ [][PlacementNext]_vars

(* The building specification: createComplexAvailableBuilding for every
   style, heights around the beacon threshold, and the extremes of the other
   draws. *)

\* createCityChunk heights in [100, 500) and [600, 800), with those around
\* the beacon threshold of the main block and of the largest lower block
KindHeights == {100, 150, 151, 217, 218, 499, 600, 799}

\* randomRange(0.3, 0.7) in hundredths
SubShares == {30, 69}

\* Math.floor(randomRange(1, 4))
RoofCounts == 1 .. 3

BuildingKinds ==
    [style : {"L", "tapered", "standard"}, height : KindHeights,
     subPct : SubShares, fins : BOOLEAN, roof1 : RoofCounts, roof2 : RoofCounts]

BuildingCalls ==
    { [fn |-> "createComplexAvailableBuilding", kind |-> k] : k \in BuildingKinds }

BuildingInit ==
    /\ LifecycleInit
    /\ devicePixelRatio = 0
    /\ webgl.first = "context"
    /\ fnCall \in BuildingCalls
    /\ fnResult = NoCall

\* createComplexAvailableBuilding returns the group with its meshes
BuildBuilding ==
    /\ fnCall.fn = "createComplexAvailableBuilding"
    /\ fnResult = NoCall
    /\ fnResult' = [fn |-> "createComplexAvailableBuilding",
                    meshes |-> CreateComplexAvailableBuilding(0, 1, fnCall.kind)]
    /\ UNCHANGED <<progVars, phase, devicePixelRatio, isMobile, resizeListeners,
                   resizeVars, containerBackground, webgl, fnCall>>

BuildingNext == BuildBuilding

BuildingSpec == BuildingInit /\ [][BuildingNext]_vars

(* The cityscape specification: the placement loop of generateCityscape
   (three/buildings.ts) for a buildingCount of MaxPlaced.  Lengths are in
   tenths of a world unit. *)

\* the draws of one attempt: width and depth within [8, 20], the type, and
\* x, z within the grid
CityDraws ==
    { [width |-> s[1], depth |-> s[2], type |-> s[3], x |-> x, z |-> z] :
        s \in {<<200, 200, "box">>, <<200, 200, "wide">>,
               <<80, 200, "tower">>, <<80, 200, "stepped">>},
        x \in {0, 250, 300}, z \in {0, 250} }

\* checkCollision: position and size against every placed building
CheckCollision(draw, placed) ==
    \E n \in 1 .. Len(placed) :
        /\ 2 * Abs(draw.x - placed[n].x) < draw.width + placed[n].width + 2 * spacing
        /\ 2 * Abs(draw.z - placed[n].z) < draw.depth + placed[n].depth + 2 * spacing

\* the footprint of the mesh the building is drawn with at ground level:
\* createBoxBuilding, createTowerBuilding, createWideBuilding,
\* createSteppedBuilding (first step)
RenderedWidth(b) ==
    IF b.type = "tower" THEN (7 * b.width) \div 10
    ELSE IF b.type = "wide" THEN (15 * b.width) \div 10
    ELSE b.width

RenderedDepth(b) ==
    IF b.type = "tower" THEN (7 * b.depth) \div 10 ELSE b.depth

\* one pass of the while loop of generateCityscape
CityscapeAttempt(r, draw) ==
    IF ~CheckCollision(draw, r.placed)
    THEN [r EXCEPT !.attempts = @ + 1, !.placed = Append(@, draw)]
    ELSE [r EXCEPT !.attempts = @ + 1]

CityscapeInit ==
    /\ LifecycleInit
    /\ devicePixelRatio = 0
    /\ webgl.first = "context"
    /\ fnCall = [fn |-> "generateCityscape", buildingCount |-> MaxPlaced]
    /\ fnResult = NoCall

\* generateCityscape is entered
BeginCityscape ==
    /\ fnCall.fn = "generateCityscape"
    /\ fnResult = NoCall
    /\ fnResult' = [fn |-> "generateCityscape", placed |-> <<>>, attempts |-> 0,
                    returned |-> FALSE]
    /\ UNCHANGED <<progVars, phase, devicePixelRatio, isMobile, resizeListeners,
                   resizeVars, containerBackground, webgl, fnCall>>

\* the loop condition holds: one more attempt
PlaceAttempt(draw) ==
    /\ fnResult.fn = "generateCityscape"
    /\ ~fnResult.returned
    /\ Len(fnResult.placed) < fnCall.buildingCount
    /\ fnResult.attempts < fnCall.buildingCount * ATTEMPTS_PER_BUILDING
    /\ fnResult' = CityscapeAttempt(fnResult, draw)
    /\ UNCHANGED <<progVars, phase, devicePixelRatio, isMobile, resizeListeners,
                   resizeVars, containerBackground, webgl, fnCall>>

\* the loop condition fails: the ground is added and the function returns
ReturnCityscape ==
    /\ fnResult.fn = "generateCityscape"
    /\ ~fnResult.returned
    /\ \/ Len(fnResult.placed) >= fnCall.buildingCount
       \/ fnResult.attempts >= fnCall.buildingCount * ATTEMPTS_PER_BUILDING
    /\ fnResult' = [fnResult EXCEPT !.returned = TRUE]
    /\ UNCHANGED <<progVars, phase, devicePixelRatio, isMobile, resizeListeners,
                   resizeVars, containerBackground, webgl, fnCall>>

CityscapeNext ==
    \/ BeginCityscape
    \/ \E draw \in CityDraws : PlaceAttempt(draw)
    \/ ReturnCityscape

CityscapeSpec == CityscapeInit /\ [][CityscapeNext]_vars

(* The quality specification: one visible scene at a steady 60 frames per
   1000 ms on any display, with no resize, followed for MaxChecks quality
   checks. *)

QualityNext ==
    \/ /\ webgl.first = "context"
       /\ resizeListeners = <<>>
       /\ \E mobile \in BOOLEAN, gap \in SteadyGapMs, content \in DefaultContent :
             InitCityScene(mobile, gap, content)
    \/ fpsReads < MaxChecks /\ \E gap \in SteadyGapMs : FrameCallback(gap)

QualitySpec == Init /\ [][QualityNext]_vars

(* The resize specification: bursts of up to MaxBurst resize events with
   40 or 60 ms between them, on up to MaxInits scenes, each torn down
   before the next is initialised. *)

ResizeNext ==
    \/ /\ webgl.first = "context"
       /\ phase \in {"loaded", "disposed"}
       /\ Len(resizeListeners) < MaxInits
       /\ \E mobile \in BOOLEAN, gap \in SteadyGapMs, content \in DefaultContent :
             InitCityScene(mobile, gap, content)
    \/ eventsSinceRun < MaxBurst /\ \E size \in ContainerSizes : ResizeEvent(size)
    \/ \E dt \in TickMs : Tick(dt)
    \/ ResizeTimerFires
    \/ phase = "running" /\ Len(resizeListeners) < MaxInits /\ Dispose

ResizeSpec == Init /\ [][ResizeNext]_vars

\* time passes, and the host runs a timeout that is due
FairResizeSpec ==
    ResizeSpec /\ WF_vars(\E dt \in TickMs : Tick(dt)) /\ WF_vars(ResizeTimerFires)

FairTravelSpec ==
    TravelSpec /\ WF_vars(recycleCount < MaxRecycles
                            /\ \E gap \in SteadyGapMs : FrameCallback(gap))

(* The restart specification: a steady visible loop on a desktop display
   with a pixel ratio of 3, followed for MaxRecycles recycles per scene; the
   scene can be torn down when a recycle has just happened, and be
   initialised again after that, for up to MaxInits scenes. *)

RestartNext ==
    \/ /\ webgl.first = "context"
       /\ devicePixelRatio = 300
       /\ phase \in {"loaded", "disposed"}
       /\ Len(resizeListeners) < MaxInits
       /\ \E gap \in SteadyGapMs, content \in DefaultContent :
             InitCityScene(FALSE, gap, content)
    \/ recycleCount < MaxRecycles /\ \E gap \in SteadyGapMs : FrameCallback(gap)
    \/ /\ phase = "running"
       /\ recycleCount > 0
       /\ totalDistance = 0
       /\ Dispose

RestartSpec == Init /\ [][RestartNext]_vars

---------------------------------------------------------------------------
(* The chunk pool *)

\* the world span of the chunk built for slot i: from SpanStart down to SpanEnd
SpanStart(i) == ZStart(i) + chunkZ[i]
SpanEnd(i) == ZEnd(i) + chunkZ[i]

Nearest == CHOOSE z \in {SpanStart(i) : i \in Slots} :
               \A j \in Slots : SpanStart(j) <= z
Farthest == CHOOSE z \in {SpanEnd(i) : i \in Slots} :
                \A j \in Slots : SpanEnd(j) >= z

\* C1: while the scene runs, the K spans have length CHUNK_SIZE each, no two
\* of them overlap, and together they cover one interval of length
\* K * CHUNK_SIZE: a gapless partition, after any number of recycles.
C1_Gapless ==
    phase = "running" =>
        /\ \A i \in Slots : SpanStart(i) - SpanEnd(i) = CHUNK_SIZE
        /\ \A i, j \in Slots :
              i # j => (SpanEnd(i) >= SpanStart(j) \/ SpanEnd(j) >= SpanStart(i))
        /\ Nearest - Farthest = CHUNK_COUNT * CHUNK_SIZE

\* the pool has wrapped around: every slot was recycled, slot 0 twice
C1_Witness ==
    /\ phase = "running"
    /\ recycleCount = CHUNK_COUNT + 1
    /\ chunkZ[0] = -2 * CHUNK_COUNT * CHUNK_SIZE

\* C2: between two handler runs, so after every updateCityInfiniteLoop call
\* and at every draw, 0 <= totalDistance < CHUNK_SIZE.
C2_CounterBounded == totalDistance >= 0 /\ totalDistance < CHUNK_SIZE

\* the frame that triggered a recycle has just run
C2_Witness ==
    /\ recycleCount = 2
    /\ totalDistance = 0
    /\ cameraZ = -2 * CHUNK_SIZE

\* the general recycle step of C3, for a step with a recycle event
RecycleStep ==
    LET first == Head(cityChunks)
    IN  /\ cityChunks' = Append(Tail(cityChunks), first)
        /\ ZStart(first) + chunkZ'[first]
              = SpanStart(first) - CHUNK_COUNT * CHUNK_SIZE
        /\ \A i \in Slots \ {first} : ZStart(i) + chunkZ'[i] = SpanStart(i)
        /\ totalDistance' = totalDistance + MOVE_SPEED - CHUNK_SIZE

\* C3: with K = 3 and chunk length 1000 the pool starts as [0,1,2] at offsets
\* 0, -1000, -2000; at 1000 units of travel slot 0 is at -3000 and the order
\* is [1,2,0]; at 2000 units slot 1 is at -4000 and the order is [2,0,1];
\* and every recycle removes the first entry, shifts it by -K * chunk length,
\* appends it and takes one chunk length off the counter.
C3_RecycleStep ==
    /\ []((phase = "running" /\ recycleCount = 0) =>
             /\ cityChunks = <<0, 1, 2>>
             /\ <<SpanStart(0), SpanStart(1), SpanStart(2)>> = <<0, -1000, -2000>>)
    /\ []((phase = "running" /\ cameraZ = -1000) =>
             /\ cityChunks = <<1, 2, 0>>
             /\ SpanStart(0) = -3000)
    /\ []((phase = "running" /\ cameraZ = -2000) =>
             /\ cityChunks = <<2, 0, 1>>
             /\ SpanStart(1) = -4000)
    /\ [][(phase = "running" /\ cameraZ' # cameraZ) =>
             IF totalDistance + MOVE_SPEED >= CHUNK_SIZE
             THEN recycleCount' = recycleCount + 1 /\ RecycleStep
             ELSE UNCHANGED <<recycleCount, cityChunks, chunkZ>>]_vars

\* 2000 units travelled: the second recycle has just happened
C3_Witness ==
    /\ phase = "running"
    /\ cameraZ = -2000
    /\ recycleCount = 2
    /\ cityChunks = <<2, 0, 1>>

\* C14: while the scene runs the pool holds exactly K distinct chunks, all
\* of them in the scene, after any distance; createCityChunk has been called
\* K times for every initCityScene and at no other time; no step of a
\* running scene changes a chunk's contents, and a chunk's offset only
\* changes when it is the one a recycle takes from the front.
C14_BoundedPool ==
    /\ [](phase = "running" =>
             /\ Len(cityChunks) = CHUNK_COUNT
             /\ Range(cityChunks) = Slots
             /\ sceneChunks = Slots
             /\ chunksCreated = CHUNK_COUNT * Len(resizeListeners))
    /\ [][chunksCreated' # chunksCreated =>
             /\ phase' = "running"
             /\ Len(resizeListeners') = Len(resizeListeners) + 1
             /\ chunksCreated' = chunksCreated + CHUNK_COUNT]_vars
    /\ [][(phase = "running" /\ chunksCreated' = chunksCreated) =>
             /\ chunkMeshes' = chunkMeshes
             /\ materials' = materials
             /\ created' = created
             /\ \A i \in Slots :
                   chunkZ'[i] # chunkZ[i] =>
                      /\ i = Head(cityChunks)
                      /\ recycleCount' = recycleCount + 1]_vars

\* three recycles in the second scene: every chunk has been moved once and
\* the order is back
C14_Witness ==
    /\ phase = "running"
    /\ chunksCreated = 2 * CHUNK_COUNT
    /\ recycleCount = CHUNK_COUNT
    /\ cityChunks = <<0, 1, 2>>
    /\ \A i \in Slots : chunkZ[i] = -CHUNK_COUNT * CHUNK_SIZE
    /\ \A i \in Slots : Len(chunkMeshes[i]) > 2

---------------------------------------------------------------------------
(* The profiler and the quality controller *)

\* a step in which animate ran its update-then-draw part
FrameRan == framesDrawn' = framesDrawn + 1

\* a step in which measureFPS was called
FpsRead == fpsReads' # fpsReads

\* the ratio the renderer was initialised with
InitialRatio == GetOptimalPixelRatio(isMobile, devicePixelRatio)

\* C4 as stated: in every step in which the quality controller is consulted
\* the renderer's pixel ratio does not go up and is at least 1.0 afterwards,
\* whatever native device pixel ratio the renderer started from.
C4_Original ==
    [][(phase = "running" /\ FpsRead) =>
         /\ pixelRatio' <= pixelRatio
         /\ pixelRatio' # pixelRatio => pixelRatio' >= 100]_vars

\* C5: measureFPS is called in exactly the frames whose number is a multiple
\* of 60; in such a frame the ratio becomes max(1.0, ratio - 0.25) if the
\* estimate just read is below 48 and is left alone otherwise; in every
\* other frame neither the estimate nor the ratio changes.
C5_QualityCheckTrigger ==
    [][phase' = "running" =>
         /\ FpsRead <=> (FrameRan /\ framesDrawn' % 60 = 0)
         /\ (phase = "running" /\ FpsRead) =>
               pixelRatio' = IF currentFPS' < 48
                             THEN (IF pixelRatio - 25 >= 100
                                   THEN pixelRatio - 25 ELSE 100)
                             ELSE pixelRatio
         /\ (phase = "running" /\ FrameRan /\ ~FpsRead) =>
               UNCHANGED <<pixelRatio, currentFPS>>]_vars

\* the first check found the estimate low and took 0.25 off a ratio of 2.0
C5_Witness ==
    /\ phase = "running"
    /\ fpsReads = 1
    /\ framesDrawn = 60
    /\ currentFPS < 48
    /\ InitialRatio = 200
    /\ pixelRatio = 175

\* C6 as stated: after a window boundary the estimate is frames * 1000 /
\* elapsed for the frames drawn in that window (give or take the frame in
\* progress), and a loop drawing 60 frames in every 1000 ms has an estimate
\* of about 60 and keeps the ratio it started with.
C6_Original ==
    phase = "running" =>
        /\ windowMs > 0 =>
              currentFPS \in {Round(windowFrames * 1000, windowMs),
                              Round((windowFrames + 1) * 1000, windowMs)}
        /\ currentFPS >= 55 /\ currentFPS <= 65
        /\ pixelRatio = InitialRatio

\* C7 as stated: once the controller has taken the ratio below the one the
\* renderer started with, no step of the running scene raises it.
C7_Original ==
    [][(phase = "running" /\ pixelRatio < InitialRatio) =>
         pixelRatio' <= pixelRatio]_vars

---------------------------------------------------------------------------
(* Pause, resume and teardown *)

travelState == <<cameraZ, totalDistance, chunkZ, cityChunks>>

\* initCityScene was called on a scene that was initialised and not torn
\* down, which the interface leaves undefined: the observer of the earlier
\* scene was never disconnected
Reinitialised == observing > (IF visibilityObserver = "connected" THEN 1 ELSE 0)

\* C8: while the container is hidden no step updates or draws, and a frame
\* callback that runs then registers no further one; the step that shows the
\* container again either finds the callback still registered and changes
\* nothing, or runs exactly one frame from the state the pause left; and a
\* visible running scene does not stay without a drawn frame for ever.
C8_PauseResume ==
    /\ [][(phase = "running" /\ phase' = "running" /\ ~isVisible /\ ~isVisible') =>
             /\ UNCHANGED <<travelState, framesDrawn, frameCounter>>
             /\ rafPending' # rafPending => (rafPending' = {} /\ animationId' = 0)]_vars
    /\ [][(phase = "running" /\ phase' = "running" /\ ~isVisible /\ isVisible') =>
             IF animationId # 0
             THEN UNCHANGED <<travelState, framesDrawn, rafPending>>
             ELSE /\ FrameRan
                  /\ cameraZ' = cameraZ - MOVE_SPEED
                  /\ totalDistance' \in {totalDistance + MOVE_SPEED,
                                         totalDistance + MOVE_SPEED - CHUNK_SIZE}
                  /\ rafPending' # {}]_vars
    /\ []<>(~(phase = "running" /\ isVisible /\ recycleCount < MaxRecycles))

\* the loop has stopped: hidden, the callback has run and left nothing behind
C8_Witness ==
    /\ phase = "running"
    /\ ~isVisible
    /\ animationId = 0
    /\ rafPending = {}
    /\ recycleCount > 0

\* C15: as long as initCityScene is only called on a scene that is not
\* initialised, at most one frame callback is pending at any time, and it is
\* the one animationId names; a visibility-enter that finds a callback
\* pending registers no other and runs no frame.
C15_SingleCycle ==
    /\ [](~Reinitialised =>
             /\ Cardinality(rafPending) <= 1
             /\ rafPending # {} => rafPending = {animationId})
    /\ [][(phase = "running" /\ ~Reinitialised
                /\ ~isVisible /\ isVisible' /\ rafPending # {}) =>
             UNCHANGED <<rafPending, animationId, framesDrawn, travelState>>]_vars

\* the container left the viewport while a frame callback is still pending,
\* in the second scene: a visibility-enter now must not start a second loop
C15_Witness ==
    /\ phase = "running"
    /\ ~Reinitialised
    /\ Len(resizeListeners) = 2
    /\ ~isVisible
    /\ animationId # 0
    /\ rafPending = {animationId}
    /\ framesDrawn > 2

\* where a step stands in the latest run of animate, 0 when it did not happen
StepPos(step) ==
    IF \E k \in 1 .. Len(frameSteps) : frameSteps[k] = step
    THEN CHOOSE k \in 1 .. Len(frameSteps) : frameSteps[k] = step
    ELSE 0

StepCount(step) == Cardinality({k \in 1 .. Len(frameSteps) : frameSteps[k] = step})

\* when both steps happened, a came before b
StepBefore(a, b) ==
    (StepPos(a) # 0 /\ StepPos(b) # 0) => StepPos(a) < StepPos(b)

\* C16 as stated: in a frame that ran, the next callback is registered after
\* the draw that ends the update-then-draw step.
C16_Original ==
    (phase = "running" /\ frameSteps # <<>>) =>
        /\ StepPos("requestAnimationFrame") # 0
        /\ StepPos("render") < StepPos("requestAnimationFrame")

\* C16 amended: a frame that runs registers exactly one next callback, as
\* its first step, before the update and the draw, which ends the frame;
\* requestAnimationFrame is only called by a frame that runs, so only while
\* the container is visible, and the callback it registers is the only one
\* pending.
C16_RegisterFirst ==
    /\ []((phase = "running" /\ frameSteps # <<>>) =>
             /\ frameSteps[1] = "requestAnimationFrame"
             /\ StepCount("requestAnimationFrame") = 1
             /\ frameSteps[Len(frameSteps)] = "render")
    /\ [][rafCalls' # rafCalls =>
             /\ rafCalls' = rafCalls + 1
             /\ FrameRan
             /\ isVisible'
             /\ rafPending' = {animationId'}]_vars
    /\ [][(phase = "running" /\ phase' = "running" /\ ~isVisible') =>
             rafCalls' = rafCalls]_vars

\* a plain frame after a resume: registered first, then advanced and drawn
C16_Witness ==
    /\ phase = "running"
    /\ isVisible
    /\ frameSteps = <<"requestAnimationFrame", "advance", "render">>
    /\ rafCalls = framesDrawn
    /\ rafCalls > FPS_CHECK_INTERVAL

\* C17 as stated: camera advance, recycle, FPS reading, quality adjustment,
\* draw, in this order.
C17_Original ==
    (phase = "running" /\ frameSteps # <<>>) =>
        /\ StepPos("advance") # 0
        /\ StepBefore("advance", "recycle")
        /\ StepBefore("advance", "measureFPS")
        /\ StepBefore("recycle", "measureFPS")
        /\ StepBefore("measureFPS", "adjustRendererQuality")
        /\ StepBefore("adjustRendererQuality", "render")
        /\ frameSteps[Len(frameSteps)] = "render"

\* C17 amended: in every executed frame the FPS reading (every 60th frame)
\* and the quality adjustment it may trigger come first, then the camera
\* advance, then the recycle if one is due, and the draw comes last; each
\* step happens at most once.
C17_FrameOrder ==
    (phase = "running" /\ frameSteps # <<>>) =>
        /\ \A k \in 1 .. Len(frameSteps) : StepCount(frameSteps[k]) = 1
        /\ StepPos("advance") # 0
        /\ StepPos("adjustRendererQuality") # 0 => StepPos("measureFPS") # 0
        /\ StepBefore("measureFPS", "adjustRendererQuality")
        /\ StepBefore("measureFPS", "advance")
        /\ StepBefore("adjustRendererQuality", "advance")
        /\ StepBefore("advance", "recycle")
        /\ frameSteps[Len(frameSteps)] = "render"
        /\ StepPos("measureFPS") # 0 <=> frameCounter = 0

\* frame 1500: an FPS check and a recycle fall into the same frame
C17_Witness ==
    /\ phase = "running"
    /\ frameSteps = <<"requestAnimationFrame", "measureFPS",
                      "adjustRendererQuality", "advance", "recycle", "render">>
    /\ recycleCount = CHUNK_COUNT

\* a step in which a debounce timeout ran handleResize
HandleResizeRan ==
    Cardinality(TimerSlots(resizeTimers')) < Cardinality(TimerSlots(resizeTimers))

\* C18 as stated: handleResize runs only when 100 ms have passed since the
\* latest resize event and once per burst, so never without an event since
\* its previous run; it then sets the camera aspect and the renderer size
\* from the container and the pixel ratio to the smaller of the device
\* pixel ratio and the cap of the tier found at init; and a burst is always
\* followed by such a run.
C18_Original ==
    /\ [][HandleResizeRan =>
             /\ msSinceEvent = DEBOUNCE_MS
             /\ eventsSinceRun >= 1
             /\ cameraAspect' = containerSize
             /\ rendererSize' = containerSize
             /\ LET native == IF devicePixelRatio = 0 THEN 100 ELSE devicePixelRatio
                    cap == IF isMobile THEN 150 ELSE 200
                IN  pixelRatio' = IF native <= cap THEN native ELSE cap]_vars
    /\ []<>(~resizeTimer)

\* C19: every building placed by createCityChunk has a lateral offset x
\* with ROAD_WIDTH <= |x| <= BUILDING_RANGE_X, whatever the draw.
C19_LaneExclusion ==
    fnResult.fn = "createCityChunk" =>
        /\ 1000 * ROAD_WIDTH <= Abs(fnResult.x)
        /\ Abs(fnResult.x) <= 1000 * fnCall.range

\* a draw of 0.501 in the complex loop gives x = 1, inside the tested band,
\* and the building is placed at x = 41
C19_Witness ==
    /\ fnResult.fn = "createCityChunk"
    /\ fnCall.loop = "complex"
    /\ fnResult.x0 = 1000
    /\ fnResult.x = 41000

\* C9: as long as initCityScene is only called on a scene that is not
\* initialised: once disposeCityScene has returned no frame callback is
\* registered, the observer is disconnected, the pool is empty, and no step
\* updates, draws or registers a callback before the next initCityScene.
C9_TeardownStops ==
    /\ []((phase = "disposed" /\ ~Reinitialised) =>
             /\ rafPending = {}
             /\ animationId = 0
             /\ visibilityObserver = "null"
             /\ observing = 0
             /\ cityChunks = <<>>)
    /\ [][(phase = "disposed" /\ ~Reinitialised /\ phase' # "running") =>
             UNCHANGED <<travelState, framesDrawn, frameCounter, rafPending>>]_vars

\* disposed while the loop was running: frames were drawn, the container was
\* visible and a resize is still to be handled
C9_Witness ==
    /\ phase = "disposed"
    /\ scene = "disposed"
    /\ ~Reinitialised
    /\ isVisible
    /\ framesDrawn = MaxLife
    /\ resizeTimer

---------------------------------------------------------------------------
(* Release of the GPU-side resources *)

\* C10: after disposeCityScene every geometry, material and texture that was
\* created for the scene has had dispose() called on it, wherever the chunks
\* had been moved to.
C10_FullRelease ==
    (phase = "disposed" /\ scene = "disposed") =>
        \A x \in created : x \in DOMAIN disposeCount /\ disposeCount[x] >= 1

\* torn down after the pool has wrapped around, with window textures and a
\* beacon among the resources
C10_Witness ==
    /\ phase = "disposed"
    /\ scene = "disposed"
    /\ recycleCount = CHUNK_COUNT + 1
    /\ \E x \in created : x[1] = "texture" /\ x[4] = "emissiveMap"
    /\ \E x \in created : x[4] = "beacon"
    /\ \A i \in Slots : \E x \in created : x[2] = i /\ x[4] = "block"

---------------------------------------------------------------------------
(* Initialisation without WebGL *)

\* C11: the scene is only built when a WebGL context can be obtained;
\* otherwise initCityScene returns without an exception, the container has
\* a non-empty background, and there is no scene, renderer, observer,
\* resize listener or frame callback.
C11_Fallback ==
    /\ phase = "running" =>
          /\ webgl.ctor
          /\ \/ webgl.first = "context"
             \/ webgl.first = "null" /\ webgl.second = "context"
    /\ phase = "fallback" =>
          /\ ~threw
          /\ containerBackground # ""
          /\ scene = "undefined"
          /\ renderer = "undefined"
          /\ visibilityObserver = "null"
          /\ resizeListeners = <<>>
          /\ rafPending = {}
          /\ animationId = 0

\* the fallback was taken because getContext threw
C11_Witness ==
    /\ phase = "fallback"
    /\ webgl.ctor
    /\ webgl.first = "throws"
    /\ containerBackground = "gradient"

\* C12: disposeCityScene after the fallback return finds no scene, renderer
\* or observer, releases nothing, and returns without an exception.
C12_DisposeAfterFallback ==
    [][(phase = "fallback" /\ phase' = "disposed") =>
         /\ ~threw'
         /\ scene' = "undefined"
         /\ renderer' = "undefined"
         /\ visibilityObserver' = "null"
         /\ disposeCount' = disposeCount
         /\ rafPending' = {}
         /\ animationId' = 0
         /\ cityChunks' = <<>>]_vars

\* torn down after the fallback
C12_Witness ==
    /\ phase = "disposed"
    /\ containerBackground = "gradient"
    /\ scene = "undefined"
    /\ renderer = "undefined"

---------------------------------------------------------------------------
(* The window texture *)

C20_Original ==
    fnResult.fn = "createWindowTexture" =>
        /\ fnResult.cell = "lit" =>
              fnResult.fillStyle \in Range(PaletteFor(fnCall.theme))
        /\ fnResult.cell = "unlit" => fnResult.fillStyle = "#000000"

\* C20 amended: a lit cell is filled with a colour of the theme's palette
\* or with the one off-theme colour the code mixes in (the first cool colour
\* on a warm building, the first warm colour otherwise); an unlit cell is
\* filled with black.
C20_ThemeColours ==
    fnResult.fn = "createWindowTexture" =>
        /\ (fnResult.cell = "lit" /\ fnCall.theme = "warm") =>
              fnResult.fillStyle \in Range(WINDOW_COLORS_WARM) \cup {"#ccddff"}
        /\ (fnResult.cell = "lit" /\ fnCall.theme = "cool") =>
              fnResult.fillStyle \in Range(WINDOW_COLORS_COOL) \cup {"#ffeedd"}
        /\ (fnResult.cell = "lit" /\ fnCall.theme = "mix") =>
              fnResult.fillStyle
                  \in Range(WINDOW_COLORS_WARM) \cup Range(WINDOW_COLORS_COOL)
        /\ fnResult.cell = "unlit" => fnResult.fillStyle = "#000000"
        /\ fnResult.cell = "none" => fnResult.fillStyle = "#020202"

\* a lit window of a warm building got the cool off-theme colour
C20_Witness ==
    /\ fnResult.fn = "createWindowTexture"
    /\ fnCall.theme = "warm"
    /\ fnResult.cell = "lit"
    /\ fnResult.fillStyle = "#ccddff"
    /\ fnResult.row > 1

---------------------------------------------------------------------------
(* Roof details *)

\* the beacon lights among the meshes of a building
Beacons(meshes) ==
    Cardinality({n \in 1 .. Len(meshes) : meshes[n].geometry[4] = "beacon"})

\* C21 as stated: a building carries at most one beacon, and one exactly
\* when its height exceeds 150, whatever its style.
C21_Original ==
    fnResult.fn = "createComplexAvailableBuilding" =>
        /\ Beacons(fnResult.meshes) <= 1
        /\ Beacons(fnResult.meshes) = 1 <=> fnCall.kind.height > BEACON_HEIGHT

---------------------------------------------------------------------------
(* The static cityscape *)

\* C22 as stated: any two placed buildings keep at least the configured
\* spacing between their drawn footprints in x or in z, and the loop makes
\* at most buildingCount * 10 attempts.
C22_Original ==
    fnResult.fn = "generateCityscape" =>
        /\ fnResult.attempts <= fnCall.buildingCount * ATTEMPTS_PER_BUILDING
        /\ \A i, j \in 1 .. Len(fnResult.placed) :
              i < j =>
                LET a == fnResult.placed[i]
                    b == fnResult.placed[j]
                IN  \/ 2 * Abs(a.x - b.x)
                          >= RenderedWidth(a) + RenderedWidth(b) + 2 * spacing
                    \/ 2 * Abs(a.z - b.z)
                          >= RenderedDepth(a) + RenderedDepth(b) + 2 * spacing

---------------------------------------------------------------------------
(* Travel accounting and the place of the camera *)

\* C23: after every frame the distance travelled since the latest init,
\* 0 - camera z, is recycleCount * CHUNK_SIZE + totalDistance, recycleCount
\* being the recycles since that init.
C23_TravelAccounting ==
    phase = "running" => 0 - cameraZ = recycleCount * CHUNK_SIZE + totalDistance

\* one frame before the third recycle of the second scene
C23_Witness ==
    /\ phase = "running"
    /\ chunksCreated = 2 * CHUNK_COUNT
    /\ recycleCount = 2
    /\ totalDistance = CHUNK_SIZE - MOVE_SPEED
    /\ cameraZ = MOVE_SPEED - 3 * CHUNK_SIZE

\* C24: while the scene runs the camera's z lies in the span of the pool's
\* first chunk, span start >= z > span start - CHUNK_SIZE, and every other
\* chunk of the pool starts beyond the camera.
C24_CameraInFirstChunk ==
    (phase = "running" /\ cityChunks # <<>>) =>
        /\ SpanStart(cityChunks[1]) >= cameraZ
        /\ cameraZ > SpanStart(cityChunks[1]) - CHUNK_SIZE
        /\ \A k \in 2 .. Len(cityChunks) : SpanStart(cityChunks[k]) < cameraZ

\* the frame of the first recycle of the second scene: the camera is on the
\* near edge of the chunk that has just become the first
C24_Witness ==
    /\ phase = "running"
    /\ chunksCreated = 2 * CHUNK_COUNT
    /\ recycleCount = 1
    /\ cityChunks[1] = 1
    /\ cameraZ = SpanStart(1)
    /\ cameraZ = 0 - CHUNK_SIZE

\* C25: while the scene runs the pool holds every slot once, is the cyclic
\* rotation starting at recycleCount mod CHUNK_COUNT, and is ordered
\* nearest first: the span starts strictly decrease along it.
C25_PoolOrder ==
    phase = "running" =>
        /\ Len(cityChunks) = CHUNK_COUNT
        /\ {cityChunks[k] : k \in 1 .. Len(cityChunks)} = Slots
        /\ \A k \in 1 .. Len(cityChunks) :
              cityChunks[k] = (recycleCount + k - 1) % CHUNK_COUNT
        /\ \A k \in 1 .. (Len(cityChunks) - 1) :
              SpanStart(cityChunks[k]) > SpanStart(cityChunks[k + 1])

\* after two recycles of the second scene the pool is <<2, 0, 1>>
C25_Witness ==
    /\ phase = "running"
    /\ chunksCreated = 2 * CHUNK_COUNT
    /\ recycleCount = 2
    /\ cityChunks = <<2, 0, 1>>
    /\ chunkZ[0] = 0 - CHUNK_COUNT * CHUNK_SIZE
    /\ chunkZ[2] = 0

---------------------------------------------------------------------------
(* Quality across a visibility pause *)

\* C26 as stated, for the step that shows the container again: with the
\* loop at the target rate whenever the container is visible, that step
\* and the frame it runs neither lower the pixel ratio nor leave an FPS
\* estimate below the threshold of 0.8 * 60.
C26_Original ==
    [][(~isVisible /\ isVisible') =>
          /\ pixelRatio' >= pixelRatio
          /\ currentFPS' * 10 >= TARGET_FPS * 8]_vars

---------------------------------------------------------------------------
(* Host callbacks after the teardown *)

\* C27 as stated: once disposeCityScene has returned no step runs
\* handleResize, neither from a debounce timeout that was pending nor from
\* one set by a later resize event.
C27_Original == [][phase = "disposed" => ~HandleResizeRan]_vars

---------------------------------------------------------------------------
(* Release counts *)

\* C28 as stated: after one disposeCityScene call every material and every
\* texture created for the scene has had dispose() called on it exactly once.
C28_Original ==
    (phase = "disposed" /\ scene = "disposed" /\ disposeCalls = 1) =>
        \A x \in created :
            x[1] \in {"material", "texture"} =>
                x \in DOMAIN disposeCount /\ disposeCount[x] = 1

---------------------------------------------------------------------------
(* Convergence of the quality controller *)

\* C29 as stated: with every check reading an estimate below the threshold
\* and no resize, the pixel ratio is exactly 1.0 once
\* ceil((initial ratio - 1) / 0.25) checks have been made, and no later step
\* changes it.
C29_Original ==
    /\ []((phase = "running"
             /\ (fpsReads > 0 => currentFPS * 10 < TARGET_FPS * 8)
             /\ fpsReads >= Ceil(InitialRatio - MIN_PIXEL_RATIO, QUALITY_STEP))
          => pixelRatio = MIN_PIXEL_RATIO)
    /\ [][(phase = "running" /\ pixelRatio = MIN_PIXEL_RATIO)
             => pixelRatio' = MIN_PIXEL_RATIO]_vars

---------------------------------------------------------------------------
(* The road *)

\* C30 as stated: the footprint of a building placed by createCityChunk,
\* from x - width / 2 to x + width / 2, does not reach into the road strip
\* of width ROAD_WIDTH centred on x = 0.
C30_Original ==
    (fnResult.fn = "createCityChunk" /\ fnCall.loop = "complex") =>
        2 * Abs(fnResult.x) - fnResult.width >= 1000 * ROAD_WIDTH

=============================================================================
